---- MODULE Spec2Model ----
(***************************************************************************)
(* Model of the rotation data model: RotationElement (a mutable dataclass  *)
(* with self-validation) and Rotation (an aggregate owning a list of       *)
(* elements, validated on construction and after add/remove).              *)
(*                                                                         *)
(* One Rotation object is followed from its construction through a series  *)
(* of add_element / remove_element / to_dict / from_dict calls.  A call    *)
(* that raises is a step too: it records the exception and leaves the      *)
(* object in whatever state the code left it in when the exception was     *)
(* raised.                                                                 *)
(***************************************************************************)
EXTENDS Integers, Sequences, FiniteSets, TLC

\* ------------------------------------------------------------------ bounds
\* Largest number of elements a rotation holds in the model; positions of
\* input elements range over -1 .. MaxLen.
MaxLen == 3
\* Largest number of constructor arguments of a RotationElement that differ
\* from those of the Power Ballad fixture.
MaxDeviations == 2

\* ------------------------------------------------------- optional values
\* Optional[T]: None is the empty tuple, a present value v is <<v>>.
None == <<>>
Some(v) == <<v>>

\* -------------------------------------------------------------- exceptions
\* The outcome of a call: NoError, or the exception it raised.
NoError == [type |-> "", msg |-> ""]
ValueError(m) == [type |-> "ValueError", msg |-> m]
TypeError(m) == [type |-> "TypeError", msg |-> m]
ZeroDivisionError == [type |-> "ZeroDivisionError", msg |-> "division by zero"]

\* ------------------------------------------------------------ ElementType
ElementType == {"MUSIC", "COMMERCIAL", "PROMO", "JINGLE", "STATION_ID"}

\* The string label (Enum value) of each member.
ElementTypeValue(t) ==
    CASE t = "MUSIC" -> "Music"
      [] t = "COMMERCIAL" -> "Commercial"
      [] t = "PROMO" -> "Promo"
      [] t = "JINGLE" -> "Jingle"
      [] t = "STATION_ID" -> "Station ID"

\* ElementType(label): the member with that label, or a ValueError.
ElementTypeOf(label) ==
    IF \E t \in ElementType : ElementTypeValue(t) = label
    THEN [err |-> NoError,
          member |-> Some(CHOOSE t \in ElementType : ElementTypeValue(t) = label)]
    ELSE [err |-> ValueError("'" \o label \o "' is not a valid ElementType"),
          member |-> None]

\* --------------------------------------------------------- RotationElement
\* An element is a record of the twelve dataclass fields.
\* cls is <<category_id, subcategory_id, category_name, subcategory_name>>;
\* the separations and repeat_rule take the dataclass defaults.
RotationElement(position, cls, element_type, data) ==
    [position |-> position,
     category_id |-> cls[1],
     subcategory_id |-> cls[2],
     category_name |-> cls[3],
     subcategory_name |-> cls[4],
     element_type |-> element_type,
     data |-> data,
     track_separation |-> 0,
     artist_separation |-> 0,
     title_separation |-> 0,
     album_separation |-> 0,
     repeat_rule |-> FALSE]

\* Mutant of ElementValidate: the names are checked before the ids.
ElementValidateNamesFirst(e) ==
    IF e.position < 0 THEN ValueError("Position must be non-negative")
    ELSE IF e.category_name = "" THEN ValueError("Category name cannot be empty")
    ELSE IF e.subcategory_name = "" THEN ValueError("Subcategory name cannot be empty")
    ELSE IF e.category_id < 1 THEN ValueError("Category ID must be positive")
    ELSE IF e.subcategory_id < 1 THEN ValueError("Subcategory ID must be positive")
    ELSE IF \E sep \in {e.track_separation, e.artist_separation,
                        e.title_separation, e.album_separation} : sep < 0
         THEN ValueError("Separation values must be non-negative")
    ELSE NoError

\* RotationElement._validate: the first violated rule, in the code's order.
ElementValidate(e) ==
    IF e.position < 0 THEN ValueError("Position must be non-negative")
    ELSE IF e.category_id < 1 THEN ValueError("Category ID must be positive")
    ELSE IF e.subcategory_id < 1 THEN ValueError("Subcategory ID must be positive")
    ELSE IF e.category_name = "" THEN ValueError("Category name cannot be empty")
    ELSE IF e.subcategory_name = "" THEN ValueError("Subcategory name cannot be empty")
    ELSE IF \E sep \in {e.track_separation, e.artist_separation,
                        e.title_separation, e.album_separation} : sep < 0
         THEN ValueError("Separation values must be non-negative")
    ELSE NoError

\* RotationElement(**args): the generated __init__ stores the fields and
\* __post_init__ validates.  Returns [err, element].
ElementNew(args) ==
    LET v == ElementValidate(args) IN
    IF v # NoError THEN [err |-> v, element |-> None]
    ELSE [err |-> NoError, element |-> Some(args)]

\* Mutant of ElementToDict: element_type written as the member's name.
ElementToDictByName(e) ==
    [position |-> e.position,
     category_id |-> e.category_id,
     subcategory_id |-> e.subcategory_id,
     category_name |-> e.category_name,
     subcategory_name |-> e.subcategory_name,
     element_type |-> e.element_type,
     data |-> e.data,
     track_separation |-> e.track_separation,
     artist_separation |-> e.artist_separation,
     title_separation |-> e.title_separation,
     album_separation |-> e.album_separation,
     repeat_rule |-> e.repeat_rule]

\* RotationElement.to_dict: the twelve keys, element_type as its label.
ElementToDict(e) ==
    [position |-> e.position,
     category_id |-> e.category_id,
     subcategory_id |-> e.subcategory_id,
     category_name |-> e.category_name,
     subcategory_name |-> e.subcategory_name,
     element_type |-> ElementTypeValue(e.element_type),
     data |-> e.data,
     track_separation |-> e.track_separation,
     artist_separation |-> e.artist_separation,
     title_separation |-> e.title_separation,
     album_separation |-> e.album_separation,
     repeat_rule |-> e.repeat_rule]

\* RotationElement.from_dict: look the label up, then construct (which
\* validates).  Returns [err, element]; element is None when it raised.
ElementFromDict(d) ==
    LET t == ElementTypeOf(d.element_type) IN
    IF t.err # NoError THEN [err |-> t.err, element |-> None]
    ELSE LET e == [d EXCEPT !.element_type = t.member[1]]
             v == ElementValidate(e)
         IN  IF v # NoError THEN [err |-> v, element |-> None]
             ELSE [err |-> NoError, element |-> Some(e)]

\* Mutant of ElementCopyWithPosition: the new position is not stored.
ElementCopyKeepsPosition(self, new_position) == ElementFromDict(ElementToDict(self))

\* RotationElement.copy_with_position: [err, element].
ElementCopyWithPosition(self, new_position) ==
    LET element_dict == ElementToDict(self)
    IN  ElementFromDict([element_dict EXCEPT !.position = new_position])

\* RotationElement.is_music / is_commercial.
IsMusic(e) == e.element_type = "MUSIC"
IsCommercial(e) == e.element_type = "COMMERCIAL"

\* Mutant of ElementEq: the dataclass-generated equality, position included.
ElementEqAllFields(self, other) == self = other

\* RotationElement.__eq__ between two elements: every field but position.
ElementEq(self, other) ==
    /\ self.category_id = other.category_id
    /\ self.subcategory_id = other.subcategory_id
    /\ self.category_name = other.category_name
    /\ self.subcategory_name = other.subcategory_name
    /\ self.element_type = other.element_type
    /\ self.data = other.data
    /\ self.track_separation = other.track_separation
    /\ self.artist_separation = other.artist_separation
    /\ self.title_separation = other.title_separation
    /\ self.album_separation = other.album_separation
    /\ self.repeat_rule = other.repeat_rule

\* ----------------------------------------------------------------- helpers
Range(s) == {s[i] : i \in 1..Len(s)}
MinOf(S) == CHOOSE x \in S : \A y \in S : x <= y
MaxOf(S) == CHOOSE x \in S : \A y \in S : x >= y
Positions(elems) == [i \in 1..Len(elems) |-> elems[i].position]
RemoveAt(s, i) == [j \in 1..(Len(s) - 1) |-> IF j < i THEN s[j] ELSE s[j + 1]]

\* ---------------------------------------------------------------- Rotation
\* A rotation is a record [name, elements, id, last_modified].
MsgEmptyName == "Rotation name cannot be empty"
MsgDuplicate == "Duplicate positions found in rotation"
MsgNegative == "Negative positions are not allowed"
MsgGap == "Positions must be sequential without gaps"
MsgLastPB == "Last element must be a Power Ballad (PB)"

\* Mutant of Validate: the negative-position check made before the
\* duplicate check.
ValidateNegativeFirst(self) ==
    LET positions == Positions(self.elements)
        n == Len(positions)
    IN  IF self.name = "" THEN ValueError(MsgEmptyName)
        ELSE IF n > 0 /\ MinOf(Range(positions)) < 0 THEN ValueError(MsgNegative)
        ELSE IF n # Cardinality(Range(positions)) THEN ValueError(MsgDuplicate)
        ELSE IF n > 0 /\ MaxOf(Range(positions)) >= n THEN ValueError(MsgGap)
        ELSE IF n > 0 /\ ~(self.elements[n].category_name = "Music"
                           /\ self.elements[n].subcategory_name = "PB")
             THEN ValueError(MsgLastPB)
        ELSE NoError

\* Mutant of Validate: the gap test off by one (max > count, not >=).
ValidateGapOffByOne(self) ==
    LET positions == Positions(self.elements)
        n == Len(positions)
    IN  IF self.name = "" THEN ValueError(MsgEmptyName)
        ELSE IF n # Cardinality(Range(positions)) THEN ValueError(MsgDuplicate)
        ELSE IF n > 0 /\ MinOf(Range(positions)) < 0 THEN ValueError(MsgNegative)
        ELSE IF n > 0 /\ MaxOf(Range(positions)) > n THEN ValueError(MsgGap)
        ELSE IF n > 0 /\ ~(self.elements[n].category_name = "Music"
                           /\ self.elements[n].subcategory_name = "PB")
             THEN ValueError(MsgLastPB)
        ELSE NoError

\* Rotation._validate: the exception it raises, or NoError.  The final rule
\* looks at self.elements[-1], the last element of the list as it stands.
Validate(self) ==
    LET positions == Positions(self.elements)
        n == Len(positions)
    IN  IF self.name = "" THEN ValueError(MsgEmptyName)
        ELSE IF n # Cardinality(Range(positions)) THEN ValueError(MsgDuplicate)
        ELSE IF n > 0 /\ MinOf(Range(positions)) < 0 THEN ValueError(MsgNegative)
        ELSE IF n > 0 /\ MaxOf(Range(positions)) >= n THEN ValueError(MsgGap)
        ELSE IF n > 0 /\ ~(self.elements[n].category_name = "Music"
                           /\ self.elements[n].subcategory_name = "PB")
             THEN ValueError(MsgLastPB)
        ELSE NoError

\* list.sort(key=position): a stable sort, here by insertion.
InsertByPosition(sorted, e) ==
    LET k == Cardinality({i \in 1..Len(sorted) : sorted[i].position <= e.position})
    IN  SubSeq(sorted, 1, k) \o <<e>> \o SubSeq(sorted, k + 1, Len(sorted))

RECURSIVE SortedByPosition(_)
SortedByPosition(elems) ==
    IF elems = <<>> THEN <<>>
    ELSE InsertByPosition(SortedByPosition(SubSeq(elems, 1, Len(elems) - 1)),
                          elems[Len(elems)])

\* Mutant of SortElements: the list is left in the order given.
SortElementsNoop(self) == self

\* Rotation._sort_elements.
SortElements(self) == [self EXCEPT !.elements = SortedByPosition(self.elements)]

\* Rotation.__post_init__: validate, then sort.  Returns [err, self]; when
\* it raises no object is constructed.
PostInit(self) ==
    LET v == Validate(self) IN
    IF v # NoError THEN [err |-> v, self |-> self]
    ELSE [err |-> NoError, self |-> SortElements(self)]

\* Mutant of AddElement: no check that the position is free.
AddElementNoOccupiedCheck(self, element) ==
    LET appended == [self EXCEPT !.elements = Append(self.elements, element)]
        sorted == SortElements(appended)
    IN  [err |-> Validate(sorted), self |-> sorted]

\* Mutant of AddElement: the list is not validated after the append.
AddElementNoValidate(self, element) ==
    IF \E i \in 1..Len(self.elements) : self.elements[i].position = element.position
    THEN [err |-> ValueError("Position " \o ToString(element.position)
                                 \o " already occupied"),
          self |-> self]
    ELSE LET appended == [self EXCEPT !.elements = Append(self.elements, element)]
         IN  [err |-> NoError, self |-> SortElements(appended)]

\* Rotation.add_element: [err, self], self being the object as the call
\* leaves it, whether it returns or raises.
AddElement(self, element) ==
    IF \E i \in 1..Len(self.elements) : self.elements[i].position = element.position
    THEN [err |-> ValueError("Position " \o ToString(element.position)
                                 \o " already occupied"),
          self |-> self]
    ELSE LET appended == [self EXCEPT !.elements = Append(self.elements, element)]
             sorted == SortElements(appended)
         IN  [err |-> Validate(sorted), self |-> sorted]

\* Mutant of RemoveElement: pops the index before the one found (pop(i - 1),
\* which for the first element is pop(-1), the last one).
RemoveElementPopsNeighbour(self, position) ==
    LET hits == {i \in 1..Len(self.elements) : self.elements[i].position = position}
    IN  IF hits = {}
        THEN [err |-> ValueError("No element found at position " \o ToString(position)),
              self |-> self, removed |-> None]
        ELSE LET i == IF MinOf(hits) = 1 THEN Len(self.elements) ELSE MinOf(hits) - 1
                 popped == [self EXCEPT !.elements = RemoveAt(self.elements, i)]
                 v == Validate(popped)
             IN  [err |-> v, self |-> popped,
                  removed |-> IF v = NoError THEN Some(self.elements[i]) ELSE None]

\* Mutant of RemoveElement: a position nobody occupies is not an error.
RemoveElementIgnoresMissing(self, position) ==
    LET hits == {i \in 1..Len(self.elements) : self.elements[i].position = position}
    IN  IF hits = {}
        THEN [err |-> NoError, self |-> self, removed |-> None]
        ELSE LET i == MinOf(hits)
                 popped == [self EXCEPT !.elements = RemoveAt(self.elements, i)]
                 v == Validate(popped)
             IN  [err |-> v, self |-> popped,
                  removed |-> IF v = NoError THEN Some(self.elements[i]) ELSE None]

\* Mutant of RemoveElement: the remaining elements are renumbered 0, 1, ...
\* before validation.
RemoveElementReindexes(self, position) ==
    LET hits == {i \in 1..Len(self.elements) : self.elements[i].position = position}
    IN  IF hits = {}
        THEN [err |-> ValueError("No element found at position " \o ToString(position)),
              self |-> self, removed |-> None]
        ELSE LET i == MinOf(hits)
                 rest == RemoveAt(self.elements, i)
                 popped == [self EXCEPT !.elements =
                               [j \in 1..Len(rest) |-> [rest[j] EXCEPT !.position = j - 1]]]
                 v == Validate(popped)
             IN  [err |-> v, self |-> popped,
                  removed |-> IF v = NoError THEN Some(self.elements[i]) ELSE None]

\* Mutant of RemoveElement: the list is not validated after the pop.
RemoveElementNoValidate(self, position) ==
    LET hits == {i \in 1..Len(self.elements) : self.elements[i].position = position}
    IN  IF hits = {}
        THEN [err |-> ValueError("No element found at position " \o ToString(position)),
              self |-> self, removed |-> None]
        ELSE LET i == MinOf(hits)
                 popped == [self EXCEPT !.elements = RemoveAt(self.elements, i)]
             IN  [err |-> NoError, self |-> popped, removed |-> Some(self.elements[i])]

\* Rotation.remove_element: [err, self, removed]; removed is the return
\* value, None when the call raises.
RemoveElement(self, position) ==
    LET hits == {i \in 1..Len(self.elements) : self.elements[i].position = position}
    IN  IF hits = {}
        THEN [err |-> ValueError("No element found at position " \o ToString(position)),
              self |-> self, removed |-> None]
        ELSE LET i == MinOf(hits)
                 popped == [self EXCEPT !.elements = RemoveAt(self.elements, i)]
                 v == Validate(popped)
             IN  [err |-> v, self |-> popped,
                  removed |-> IF v = NoError THEN Some(self.elements[i]) ELSE None]

\* The loop of commercial_breaks over the elements still to visit: a
\* non-commercial element closes the open break; nothing is done after the
\* last element.
RECURSIVE BreaksLoop(_, _, _)
BreaksLoop(elems, breaks, current_break) ==
    IF elems = <<>> THEN breaks
    ELSE IF IsCommercial(Head(elems))
         THEN BreaksLoop(Tail(elems), breaks, Append(current_break, Head(elems)))
    ELSE IF current_break # <<>>
         THEN BreaksLoop(Tail(elems), Append(breaks, current_break), <<>>)
    ELSE BreaksLoop(Tail(elems), breaks, current_break)

\* Rotation.commercial_breaks.
CommercialBreaks(self) == BreaksLoop(self.elements, <<>>, <<>>)

\* The loop of music_sets; the set still open after the last element is
\* appended.
RECURSIVE SetsLoop(_, _, _)
SetsLoop(elems, sets, current_set) ==
    IF elems = <<>>
    THEN IF current_set # <<>> THEN Append(sets, current_set) ELSE sets
    ELSE IF IsMusic(Head(elems))
         THEN SetsLoop(Tail(elems), sets, Append(current_set, Head(elems)))
    ELSE IF current_set # <<>>
         THEN SetsLoop(Tail(elems), Append(sets, current_set), <<>>)
    ELSE SetsLoop(Tail(elems), sets, current_set)

\* Mutant of MusicSets: the set still open after the last element is
\* dropped, as commercial_breaks does.
RECURSIVE SetsLoopNoFlush(_, _, _)
SetsLoopNoFlush(elems, sets, current_set) ==
    IF elems = <<>> THEN sets
    ELSE IF IsMusic(Head(elems))
         THEN SetsLoopNoFlush(Tail(elems), sets, Append(current_set, Head(elems)))
    ELSE IF current_set # <<>>
         THEN SetsLoopNoFlush(Tail(elems), Append(sets, current_set), <<>>)
    ELSE SetsLoopNoFlush(Tail(elems), sets, current_set)
MusicSetsNoFlush(self) == SetsLoopNoFlush(self.elements, <<>>, <<>>)

\* Rotation.music_sets.
MusicSets(self) == SetsLoop(self.elements, <<>>, <<>>)

\* Rotation.length.
Length(self) == Len(self.elements)

\* Rotation.category_counts: a dict from category_name to its count.
CategoryCounts(self) ==
    [c \in {self.elements[i].category_name : i \in 1..Len(self.elements)} |->
        Cardinality({i \in 1..Len(self.elements) : self.elements[i].category_name = c})]

\* Rotation.subcategory_counts: a dict from "category/subcategory" to its
\* count.
SubcategoryKey(e) == e.category_name \o "/" \o e.subcategory_name
SubcategoryCounts(self) ==
    [key \in {SubcategoryKey(self.elements[i]) : i \in 1..Len(self.elements)} |->
        Cardinality({i \in 1..Len(self.elements) : SubcategoryKey(self.elements[i]) = key})]

\* dict.get(key, 0).
GetOrZero(counts, key) == IF key \in DOMAIN counts THEN counts[key] ELSE 0

\* Python's float results are modelled as exact fractions in lowest terms.
RECURSIVE Gcd(_, _)
Gcd(a, b) == IF b = 0 THEN a ELSE Gcd(b, a % b)
Fraction(n, d) == [num |-> n \div Gcd(n, d), den |-> d \div Gcd(n, d)]

\* Mutant of CompareWith: elements are matched position by position.
CompareWithAligned(self, other) ==
    IF other.class # "Rotation"
    THEN [err |-> TypeError("Can only compare with another Rotation"), ret |-> None]
    ELSE LET theirs == other.obj
             common_elements ==
                 Cardinality({i \in 1..Len(self.elements) :
                     /\ i <= Len(theirs.elements)
                     /\ ElementEq(self.elements[i], theirs.elements[i])})
             longest == IF Len(self.elements) >= Len(theirs.elements)
                        THEN Len(self.elements) ELSE Len(theirs.elements)
             self_counts == CategoryCounts(self)
             other_counts == CategoryCounts(theirs)
             all_categories == DOMAIN self_counts \cup DOMAIN other_counts
             changes == [category \in all_categories |->
                            GetOrZero(other_counts, category)
                                - GetOrZero(self_counts, category)]
         IN  IF longest = 0 THEN [err |-> ZeroDivisionError, ret |-> None]
             ELSE LET similarity == Fraction(common_elements, longest)
                  IN  [err |-> NoError,
                       ret |-> Some(<<Fraction(similarity.num * 100, similarity.den),
                                      changes>>)]

\* Rotation.compare_with.  An argument is [class, obj]: the class Python's
\* isinstance sees and the object itself.  Returns [err, ret]; ret is the
\* tuple <<similarity * 100, changes>>.
CompareWith(self, other) ==
    IF other.class # "Rotation"
    THEN [err |-> TypeError("Can only compare with another Rotation"), ret |-> None]
    ELSE LET theirs == other.obj
             common_elements ==
                 Cardinality({i \in 1..Len(self.elements) :
                     \E j \in 1..Len(theirs.elements) :
                         ElementEq(self.elements[i], theirs.elements[j])})
             longest == IF Len(self.elements) >= Len(theirs.elements)
                        THEN Len(self.elements) ELSE Len(theirs.elements)
             self_counts == CategoryCounts(self)
             other_counts == CategoryCounts(theirs)
             all_categories == DOMAIN self_counts \cup DOMAIN other_counts
             changes == [category \in all_categories |->
                            GetOrZero(other_counts, category)
                                - GetOrZero(self_counts, category)]
         IN  IF longest = 0 THEN [err |-> ZeroDivisionError, ret |-> None]
             ELSE LET similarity == Fraction(common_elements, longest)
                  IN  [err |-> NoError,
                       ret |-> Some(<<Fraction(similarity.num * 100, similarity.den),
                                      changes>>)]

\* Rotation.to_dict.  A datetime is modelled by its ISO-8601 text inside a
\* datetime wrapper; isoformat() unwraps it and fromisoformat() wraps it.
IsoFormat(dt) == dt.iso
FromIsoFormat(text) == [iso |-> text]

ToDict(self) ==
    [name |-> self.name,
     id |-> self.id,
     last_modified |-> IF self.last_modified # None
                       THEN Some(IsoFormat(self.last_modified[1])) ELSE None,
     elements |-> [i \in 1..Len(self.elements) |-> ElementToDict(self.elements[i])]]

\* The loop of from_dict: add_element(RotationElement.from_dict(d)) for each
\* record in the order given; the first exception ends it.
RECURSIVE AddAllFromDicts(_, _)
AddAllFromDicts(self, elements_data) ==
    IF elements_data = <<>> THEN [err |-> NoError, self |-> self]
    ELSE LET fd == ElementFromDict(Head(elements_data)) IN
         IF fd.err # NoError THEN [err |-> fd.err, self |-> self]
         ELSE LET r == AddElement(self, fd.element[1]) IN
              IF r.err # NoError THEN r
              ELSE AddAllFromDicts(r.self, Tail(elements_data))

\* Rotation.from_dict: construct from name/id/last_modified with no
\* elements, then add the elements one by one.  Returns [err, rotation];
\* rotation is None when an exception escaped.
FromDict(data) ==
    LET init == PostInit([name |-> data.name,
                          elements |-> <<>>,
                          id |-> data.id,
                          last_modified |-> IF data.last_modified # None
                                            THEN Some(FromIsoFormat(data.last_modified[1]))
                                            ELSE None])
    IN  IF init.err # NoError THEN [err |-> init.err, rotation |-> None]
        ELSE LET r == AddAllFromDicts(init.self, data.elements) IN
             IF r.err # NoError THEN [err |-> r.err, rotation |-> None]
             ELSE [err |-> NoError, rotation |-> Some(r.self)]

\* ------------------------------------------------------------------ inputs
\* Classifications and labels of the test fixtures.
ClsPB == <<1, 56, "Music", "PB">>
ClsCE == <<1, 45, "Music", "CE">>
ClsAd == <<7, 32, "Commercials", "60">>

\* The elements a caller may hold at position p.
ElementsAt(p) ==
    {RotationElement(p, ClsPB, "MUSIC", "Power Ballad"),
     RotationElement(p, ClsCE, "MUSIC", "Core Early"),
     RotationElement(p, ClsAd, "COMMERCIAL", "60 second spot")}

\* RotationElement is a plain (not frozen) dataclass: position is checked
\* when the element is constructed but can be assigned afterwards, so a
\* caller can hold an element whose position is negative.
InputPositions == (-1)..MaxLen
InputElements == UNION {ElementsAt(p) : p \in InputPositions}

RECURSIVE SeqsUpTo(_, _)
SeqsUpTo(S, n) ==
    IF n = 0 THEN {<<>>}
    ELSE LET shorter == SeqsUpTo(S, n - 1)
         IN  shorter \cup {Append(s, x) : s \in {t \in shorter : Len(t) = n - 1}, x \in S}

InputLists == SeqsUpTo(InputElements, MaxLen)

\* add_element is also given elements classified Music/PB whose
\* element_type is not MUSIC: the constructor of RotationElement does not
\* relate element_type to the category names.
AddableElements ==
    InputElements
        \cup {RotationElement(p, ClsPB, "COMMERCIAL", "Sponsored") : p \in InputPositions}

\* The arguments given to compare_with: rotations constructed from these
\* lists under the name "Hr B", and a string.
OtherLists ==
    {<<>>,
     <<RotationElement(0, ClsPB, "MUSIC", "Power Ballad")>>,
     <<RotationElement(0, ClsCE, "MUSIC", "Core Early"),
       RotationElement(1, ClsPB, "MUSIC", "Power Ballad")>>,
     <<RotationElement(0, ClsAd, "COMMERCIAL", "60 second spot"),
       RotationElement(1, ClsPB, "MUSIC", "Power Ballad")>>,
     <<RotationElement(0, ClsAd, "COMMERCIAL", "60 second spot"),
       RotationElement(1, ClsCE, "MUSIC", "Core Early"),
       RotationElement(2, ClsPB, "MUSIC", "Power Ballad")>>}
CompareArguments ==
    {[class |-> "Rotation",
      obj |-> PostInit([name |-> "Hr B", elements |-> l, id |-> None,
                        last_modified |-> None]).self] : l \in OtherLists}
        \cup {[class |-> "str", obj |-> "not a rotation"]}
InputNames == {"", "Hr A"}
\* <<id, last_modified>> as the caller passes them.
InputStamps == {<<None, None>>, <<Some(1), Some([iso |-> "2024-01-01T12:00:00"])>>}

\* Constructor arguments for a RotationElement: those of the Power Ballad
\* fixture with up to MaxDeviations of them replaced, each by a value the
\* validation rejects or by another value it accepts.
BaseElement == RotationElement(0, ClsPB, "MUSIC", "Power Ballad")
Deviations ==
    {<<"position", -1>>, <<"position", 1>>,
     <<"category_id", 0>>, <<"category_id", 7>>,
     <<"subcategory_id", 0>>, <<"subcategory_id", 45>>,
     <<"category_name", "">>, <<"category_name", "Commercials">>,
     <<"subcategory_name", "">>, <<"subcategory_name", "CE">>,
     <<"data", "">>,
     <<"track_separation", -1>>, <<"track_separation", 60>>,
     <<"artist_separation", -1>>, <<"artist_separation", 60>>,
     <<"title_separation", -1>>, <<"title_separation", 60>>,
     <<"album_separation", -1>>, <<"album_separation", 60>>,
     <<"repeat_rule", TRUE>>}
        \cup {<<"element_type", t>> : t \in ElementType}

RECURSIVE Deviate(_, _)
Deviate(S, k) ==
    IF k = 0 THEN S
    ELSE Deviate(S \cup {[e EXCEPT ![d[1]] = d[2]] : e \in S, d \in Deviations}, k - 1)

ElementInputs == Deviate({BaseElement}, MaxDeviations)
\* The elements that elem is compared with: those constructed from the
\* fixture's arguments with at most one of them replaced.
ComparedElements == {a \in Deviate({BaseElement}, 1) : ElementNew(a).err = NoError}
\* The same arguments as records, element_type given by its label.
ElementRecords ==
    {[a EXCEPT !.element_type = ElementTypeValue(a.element_type)] : a \in ElementInputs}

\* ------------------------------------------------------------------- state
VARIABLES
    live,           \* TRUE once a Rotation has been constructed
    name,           \* Rotation.name
    elements,       \* Rotation.elements
    id,             \* Rotation.id
    last_modified,  \* Rotation.last_modified
    last,           \* the latest call: what was called, on what, its outcome
    prev,           \* the call before it, kept if it was an add_element that returned
    copy,           \* outcome of the latest from_dict(to_dict(self))
    elem            \* a RotationElement the caller holds, None before it is made

vars == <<live, name, elements, id, last_modified, last, prev, copy, elem>>

\* The object as the methods see it.
Self == [name |-> name, elements |-> elements, id |-> id, last_modified |-> last_modified]

NoCall ==
    [op |-> "none", rotation |-> None, element |-> None, position |-> None,
     other |-> None, after |-> None, pre |-> None, err |-> NoError, ret |-> None]
NoCopy == [err |-> NoError, rotation |-> None]

Init ==
    /\ live = FALSE
    /\ name = ""
    /\ elements = <<>>
    /\ id = None
    /\ last_modified = None
    /\ last = NoCall
    /\ prev = NoCall
    /\ copy = NoCopy
    /\ elem = None

\* What prev becomes when a new call is made.
Shift == IF last.op = "add_element" /\ last.err = NoError THEN last ELSE NoCall

\* Store the object a method call left behind.
Becomes(self) ==
    /\ name' = self.name
    /\ elements' = self.elements
    /\ id' = self.id
    /\ last_modified' = self.last_modified

\* Rotation(name, elements, id, last_modified).
\* Rotation(name, elements, id, last_modified).  The model follows one
\* construction: the object it yields, or its failure.
Construct ==
    /\ ~live
    /\ last.op = "none"
    /\ \E n \in InputNames, elems \in InputLists, stamp \in InputStamps :
          LET given == [name |-> n, elements |-> elems, id |-> stamp[1],
                        last_modified |-> stamp[2]]
              r == PostInit(given)
          IN  /\ last' = [NoCall EXCEPT !.op = "construct", !.rotation = Some(given),
                                        !.err = r.err]
              /\ IF r.err = NoError
                 THEN live' = TRUE /\ Becomes(r.self)
                 ELSE UNCHANGED <<live, name, elements, id, last_modified>>
    /\ prev' = Shift
    /\ UNCHANGED elem
    /\ copy' = NoCopy

\* rotation.add_element(e).
Add(e) ==
    /\ live
    /\ Len(elements) < MaxLen
    /\ LET r == AddElement(Self, e)
       IN  /\ last' = [NoCall EXCEPT !.op = "add_element", !.element = Some(e),
                                     !.pre = Some(Self), !.err = r.err]
           /\ Becomes(r.self)
    /\ prev' = Shift
    /\ UNCHANGED elem
    /\ copy' = NoCopy
    /\ UNCHANGED live

\* rotation.remove_element(p).
Remove(p) ==
    /\ live
    /\ LET r == RemoveElement(Self, p)
       IN  /\ last' = [NoCall EXCEPT !.op = "remove_element", !.position = Some(p),
                                     !.pre = Some(Self), !.err = r.err,
                                     !.ret = r.removed]
           /\ Becomes(r.self)
    /\ prev' = Shift
    /\ UNCHANGED elem
    /\ copy' = NoCopy
    /\ UNCHANGED live

\* Rotation.from_dict(rotation.to_dict()).
RoundTrip ==
    /\ live
    /\ last.op # "round_trip"
    /\ copy' = FromDict(ToDict(Self))
    /\ last' = [NoCall EXCEPT !.op = "round_trip", !.pre = Some(Self),
                              !.err = copy'.err]
    /\ prev' = Shift
    /\ UNCHANGED elem
    /\ UNCHANGED <<live, name, elements, id, last_modified>>

\* rotation.commercial_breaks.
Breaks ==
    /\ live
    /\ last' = [NoCall EXCEPT !.op = "commercial_breaks", !.pre = Some(Self),
                              !.ret = Some(CommercialBreaks(Self))]
    /\ prev' = Shift
    /\ UNCHANGED elem
    /\ copy' = NoCopy
    /\ UNCHANGED <<live, name, elements, id, last_modified>>

\* rotation.music_sets.
Sets ==
    /\ live
    /\ last' = [NoCall EXCEPT !.op = "music_sets", !.pre = Some(Self),
                              !.ret = Some(MusicSets(Self))]
    /\ prev' = Shift
    /\ UNCHANGED elem
    /\ copy' = NoCopy
    /\ UNCHANGED <<live, name, elements, id, last_modified>>

\* Mutant of Compare: the elements found in the other rotation are taken
\* out of both lists as they are counted.
CompareConsumes(other) ==
    /\ live
    /\ LET r == CompareWith(Self, other)
           theirs == IF other.class = "Rotation" THEN other.obj.elements ELSE <<>>
           Matched(e) == \E j \in 1..Len(theirs) : ElementEq(e, theirs[j])
           Unmatched(e) == ~Matched(e)
           Missing(e) == \A i \in 1..Len(elements) : ~ElementEq(elements[i], e)
       IN  /\ last' = [NoCall EXCEPT !.op = "compare_with", !.other = Some(other),
                                     !.after = Some(IF other.class = "Rotation"
                                                    THEN [other EXCEPT !.obj.elements =
                                                             SelectSeq(theirs, Missing)]
                                                    ELSE other),
                                     !.pre = Some(Self), !.err = r.err, !.ret = r.ret]
           /\ elements' = SelectSeq(elements, Unmatched)
    /\ prev' = Shift
    /\ UNCHANGED elem
    /\ copy' = NoCopy
    /\ UNCHANGED <<live, name, id, last_modified>>

\* rotation.compare_with(other).  No statement of compare_with assigns to
\* either rotation: after is the argument as the call leaves it.
Compare(other) ==
    /\ live
    /\ LET r == CompareWith(Self, other)
       IN  last' = [NoCall EXCEPT !.op = "compare_with", !.other = Some(other),
                                 !.after = Some(other),
                                 !.pre = Some(Self), !.err = r.err, !.ret = r.ret]
    /\ prev' = Shift
    /\ UNCHANGED elem
    /\ copy' = NoCopy
    /\ UNCHANGED <<live, name, elements, id, last_modified>>

Next ==
    \/ Construct
    \/ \E e \in InputElements : Add(e)
    \/ \E p \in InputPositions : Remove(p)
    \/ RoundTrip

Spec == Init /\ [][Next]_vars

\* ------------------------------------------------- RotationElement calls
\* The rotation variables stay as Init leaves them.
NoRotation == UNCHANGED <<live, name, elements, id, last_modified, prev, copy>>

\* RotationElement(**args).  The model follows one element.
NewElement ==
    /\ elem = None
    /\ last.op = "none"
    /\ \E args \in ElementInputs :
          LET r == ElementNew(args)
          IN  /\ last' = [NoCall EXCEPT !.op = "RotationElement", !.element = Some(args),
                                        !.err = r.err, !.ret = r.element]
              /\ elem' = r.element
    /\ NoRotation

\* RotationElement.from_dict(record).
NewElementFromDict ==
    /\ elem = None
    /\ last.op = "none"
    /\ \E record \in ElementRecords :
          LET r == ElementFromDict(record)
          IN  /\ last' = [NoCall EXCEPT !.op = "from_dict", !.element = Some(record),
                                        !.err = r.err, !.ret = r.element]
              /\ elem' = r.element
    /\ NoRotation

\* elem.copy_with_position(p).
CopyElement(p) ==
    /\ elem # None
    /\ LET r == ElementCopyWithPosition(elem[1], p)
       IN  last' = [NoCall EXCEPT !.op = "copy_with_position", !.element = elem,
                                 !.position = Some(p), !.err = r.err,
                                 !.ret = r.element]
    /\ UNCHANGED elem
    /\ NoRotation

\* elem == other.
CompareElements(other) ==
    /\ elem # None
    /\ last' = [NoCall EXCEPT !.op = "__eq__", !.element = elem, !.other = Some(other),
                              !.ret = Some(ElementEq(elem[1], other))]
    /\ UNCHANGED elem
    /\ NoRotation

\* RotationElement.from_dict(elem.to_dict()); the record is kept in other.
RoundTripElement ==
    /\ elem # None
    /\ LET record == ElementToDict(elem[1])
           r == ElementFromDict(record)
       IN  last' = [NoCall EXCEPT !.op = "element_round_trip", !.element = elem,
                                 !.other = Some(record), !.err = r.err,
                                 !.ret = r.element]
    /\ UNCHANGED elem
    /\ NoRotation

NextElement ==
    \/ NewElement
    \/ NewElementFromDict
    \/ \E p \in InputPositions : CopyElement(p)
    \/ \E other \in ComparedElements : CompareElements(other)
    \/ RoundTripElement

SpecElement == Init /\ [][NextElement]_vars

\* setattr(self, field, value): the dataclass is not frozen and defines
\* no __setattr__, so the value is stored and nothing else runs.
SetAttr(self, field, value) == [self EXCEPT ![field] = value]

\* elem.<field> = value, once after the element was made.
Assign(field, value) ==
    /\ elem # None
    /\ last.op \in {"RotationElement", "from_dict"}
    /\ last' = [NoCall EXCEPT !.op = "setattr", !.element = elem,
                              !.other = Some(<<field, value>>)]
    /\ elem' = Some(SetAttr(elem[1], field, value))
    /\ NoRotation

NextAssign ==
    \/ NewElement
    \/ NewElementFromDict
    \/ \E d \in Deviations : Assign(d[1], d[2])

SpecAssign == Init /\ [][NextAssign]_vars

\* rotation.length.
GetLength ==
    /\ live
    /\ last' = [NoCall EXCEPT !.op = "length", !.pre = Some(Self),
                              !.ret = Some(Length(Self))]
    /\ prev' = Shift
    /\ UNCHANGED elem
    /\ copy' = NoCopy
    /\ UNCHANGED <<live, name, elements, id, last_modified>>

\* rotation.category_counts().
Categories ==
    /\ live
    /\ last' = [NoCall EXCEPT !.op = "category_counts", !.pre = Some(Self),
                              !.ret = Some(CategoryCounts(Self))]
    /\ prev' = Shift
    /\ UNCHANGED elem
    /\ copy' = NoCopy
    /\ UNCHANGED <<live, name, elements, id, last_modified>>

\* rotation.subcategory_counts().
Subcategories ==
    /\ live
    /\ last' = [NoCall EXCEPT !.op = "subcategory_counts", !.pre = Some(Self),
                              !.ret = Some(SubcategoryCounts(Self))]
    /\ prev' = Shift
    /\ UNCHANGED elem
    /\ copy' = NoCopy
    /\ UNCHANGED <<live, name, elements, id, last_modified>>

\* rotation.to_dict().
Serialize ==
    /\ live
    /\ last' = [NoCall EXCEPT !.op = "to_dict", !.pre = Some(Self),
                              !.ret = Some(ToDict(Self))]
    /\ prev' = Shift
    /\ UNCHANGED elem
    /\ copy' = NoCopy
    /\ UNCHANGED <<live, name, elements, id, last_modified>>

\* The record a caller writes for a name and an element list: what to_dict
\* lays out, the elements as their own records.
RecordOf(given) == ToDict(given)

\* Rotation(name, elements, id, last_modified) and, for the same name and
\* elements, Rotation.from_dict(record).  The rotation variables hold the
\* direct construction, copy the outcome of from_dict.
ConstructBothWays ==
    /\ ~live
    /\ last.op = "none"
    /\ \E n \in InputNames, elems \in InputLists, stamp \in InputStamps :
          LET given == [name |-> n, elements |-> elems, id |-> stamp[1],
                        last_modified |-> stamp[2]]
              r == PostInit(given)
          IN  /\ last' = [NoCall EXCEPT !.op = "both_ways", !.rotation = Some(given),
                                        !.other = Some(RecordOf(given)),
                                        !.err = r.err]
              /\ copy' = FromDict(RecordOf(given))
              /\ IF r.err = NoError
                 THEN live' = TRUE /\ Becomes(r.self)
                 ELSE UNCHANGED <<live, name, elements, id, last_modified>>
    /\ prev' = Shift
    /\ UNCHANGED elem

NextPaths == ConstructBothWays

SpecPaths == Init /\ [][NextPaths]_vars

\* The seven read-only operations, asked of every rotation that
\* construction and add_element calls (returning or raising) can leave
\* behind.
NextReadOnly ==
    \/ Construct
    \/ \E e \in InputElements : Add(e)
    \/ GetLength
    \/ Breaks
    \/ Sets
    \/ Categories
    \/ Subcategories
    \/ \E other \in CompareArguments : Compare(other)
    \/ Serialize

SpecReadOnly == Init /\ [][NextReadOnly]_vars

\* The read-only queries, asked of every rotation that construction and
\* add_element calls (returning or raising) can leave behind.
NextQueries ==
    \/ Construct
    \/ \E e \in AddableElements : Add(e)
    \/ Breaks
    \/ Sets
    \/ \E other \in CompareArguments : Compare(other)

SpecQueries == Init /\ [][NextQueries]_vars

\* ------------------------------------------------------ the stated rules
\* The structural rules as the specification states them, independent of
\* how _validate computes them.
IsPB(e) == e.category_name = "Music" /\ e.subcategory_name = "PB"
PositionSet(elems) == {elems[i].position : i \in 1..Len(elems)}
Occupied(elems, p) == p \in PositionSet(elems)

\* Rule 1: positions pairwise distinct.
DistinctPositions(elems) ==
    \A i, j \in 1..Len(elems) : i # j => elems[i].position # elems[j].position
\* Rules 1 and 2 together: positions are exactly {0 .. count-1}.
DensePositions(elems) ==
    DistinctPositions(elems) /\ PositionSet(elems) = 0..(Len(elems) - 1)
\* Rule 3: every element holding the highest position is Music/PB.
EndsOnPB(elems) ==
    \A i \in 1..Len(elems) :
        (\A j \in 1..Len(elems) : elems[j].position <= elems[i].position) => IsPB(elems[i])
RulesHold(elems) == DensePositions(elems) /\ EndsOnPB(elems)

\* The rules an input to the constructor violates, numbered in the stated
\* order: 1 empty name, 2 duplicate positions, 3 negative position,
\* 4 position gap (maximum >= count), 5 terminal PB.
Violated(given) ==
    {k \in 1..5 :
        \/ k = 1 /\ given.name = ""
        \/ k = 2 /\ ~DistinctPositions(given.elements)
        \/ k = 3 /\ \E q \in PositionSet(given.elements) : q < 0
        \/ k = 4 /\ \E q \in PositionSet(given.elements) : q >= Len(given.elements)
        \/ k = 5 /\ ~EndsOnPB(given.elements)}
RuleMsg(k) ==
    CASE k = 1 -> MsgEmptyName
      [] k = 2 -> MsgDuplicate
      [] k = 3 -> MsgNegative
      [] k = 4 -> MsgGap
      [] k = 5 -> MsgLastPB

\* ------------------------------------------------------------------ claims
\* C1: after any sequence of construction, add_element and remove_element
\* calls, failed ones included, the rotation a later call observes has
\* positions exactly {0..length-1} and, if non-empty, ends on Music/PB.
C1_AlwaysValid == live => RulesHold(elements)

\* C2: on a valid rotation, an add_element call whose position was free but
\* whose re-validation failed on the gap rule or the terminal-PB rule leaves
\* the element sequence exactly as it was before the call.
C2_AddAllOrNothing ==
    (/\ last.op = "add_element"
     /\ RulesHold(last.pre[1].elements)
     /\ ~Occupied(last.pre[1].elements, last.element[1].position)
     /\ last.err \in {ValueError(MsgGap), ValueError(MsgLastPB)})
    => elements = last.pre[1].elements

\* C3: on a valid rotation, a remove_element call that found its element but
\* whose re-validation failed on the gap rule or the terminal-PB rule
\* restores it: the element sequence is as it was before the call.
C3_RemoveRollsBack ==
    (/\ last.op = "remove_element"
     /\ RulesHold(last.pre[1].elements)
     /\ Occupied(last.pre[1].elements, last.position[1])
     /\ last.err \in {ValueError(MsgGap), ValueError(MsgLastPB)})
    => elements = last.pre[1].elements

\* C4: whatever the order of the input list, construction succeeds exactly
\* when the name is non-empty, the positions are exactly {0..count-1} and
\* the element with the highest position is Music/PB; so a constructed
\* non-empty rotation ends, in position order, on Music/PB.
C4_ConstructIffRules ==
    last.op = "construct" =>
        /\ (last.err = NoError) <=>
               (last.rotation[1].name # "" /\ RulesHold(last.rotation[1].elements))
        /\ (live /\ elements # <<>>) => IsPB(elements[Len(elements)])

\* C5: for a valid rotation, from_dict(to_dict(r)) succeeds and has the same
\* name, id, length and the same element at every position.
C5_RoundTrip ==
    (last.op = "round_trip" /\ name # "" /\ RulesHold(elements)) =>
        /\ copy.err = NoError
        /\ copy.rotation # None
        /\ copy.rotation[1].name = name
        /\ copy.rotation[1].id = id
        /\ copy.rotation[1].elements = elements

\* C6: on a valid rotation, an add_element that returns followed by
\* remove_element at the added element's position gives back the element
\* sequence (order and content) from before the add.
C6_AddedThenRemoved ==
    /\ prev.op = "add_element"
    /\ prev.err = NoError
    /\ RulesHold(prev.pre[1].elements)
    /\ last.op = "remove_element"
    /\ last.position = Some(prev.element[1].position)
C6_AddThenRemove ==
    C6_AddedThenRemoved =>
        /\ last.err = NoError
        /\ last.ret = prev.element
        /\ elements = prev.pre[1].elements
C6_Witness == C6_AddedThenRemoved /\ Len(elements) >= 1

\* C7: add_element at an occupied position raises the duplicate-position
\* error and changes nothing, whatever the new element is.
C7_DuplicateRejected ==
    (/\ last.op = "add_element"
     /\ Occupied(last.pre[1].elements, last.element[1].position))
    => /\ last.err = ValueError("Position " \o ToString(last.element[1].position)
                                    \o " already occupied")
       /\ Self = last.pre[1]
\* An occupied position is targeted with an element that would also break
\* the terminal rule.
C7_Witness ==
    /\ last.op = "add_element"
    /\ Occupied(last.pre[1].elements, last.element[1].position)
    /\ last.element[1].position = Len(elements) - 1
    /\ ~IsPB(last.element[1])
    /\ RulesHold(elements)

\* C8: remove_element at a position no element occupies raises the
\* position-not-found error and leaves the element sequence unchanged.
C8_MissingRejected ==
    (/\ last.op = "remove_element"
     /\ ~Occupied(last.pre[1].elements, last.position[1]))
    => /\ last.err = ValueError("No element found at position "
                                    \o ToString(last.position[1]))
       /\ last.ret = None
       /\ elements = last.pre[1].elements
C8_Witness ==
    /\ last.op = "remove_element"
    /\ ~Occupied(last.pre[1].elements, last.position[1])
    /\ elements # <<>>

\* C9: in every state reached by construction, add_element and
\* remove_element, returning or raising, the elements list is in strictly
\* ascending order of position.
C9_Sorted ==
    live => \A i, j \in 1..Len(elements) :
                i < j => elements[i].position < elements[j].position
\* A rotation constructed from a list given out of position order.
C9_Witness ==
    /\ live
    /\ last.op = "construct"
    /\ Len(elements) >= 2
    /\ last.rotation[1].elements # elements

\* C10: when a constructor input violates several rules at once, the error
\* carries the message of the earliest violated rule in the order empty
\* name, duplicate positions, negative position, position gap, terminal PB;
\* the five messages are pairwise distinct.
C10_FirstViolationReported ==
    /\ Cardinality({RuleMsg(k) : k \in 1..5}) = 5
    /\ (last.op = "construct" /\ Cardinality(Violated(last.rotation[1])) >= 2)
       => last.err = ValueError(RuleMsg(MinOf(Violated(last.rotation[1]))))
\* An input with duplicate and negative positions, a gap and no terminal PB.
C10_Witness ==
    /\ last.op = "construct"
    /\ Violated(last.rotation[1]) = {2, 3, 4, 5}

\* C11: remove_element never renumbers.  On a valid rotation of length > 1,
\* removing an element at a position other than the maximum raises the
\* gap error; the remaining positions are sequential only when the removed
\* position was the maximum.
C11_RemovedFromValid ==
    /\ last.op = "remove_element"
    /\ RulesHold(last.pre[1].elements)
    /\ Len(last.pre[1].elements) > 1
    /\ Occupied(last.pre[1].elements, last.position[1])
C12_RemoveInnerSucceeds ==
    (/\ C11_RemovedFromValid
     /\ last.position[1] # Len(last.pre[1].elements) - 1
     /\ \E i \in 1..Len(last.pre[1].elements) :
           /\ last.pre[1].elements[i].position = last.position[1]
           /\ ~IsPB(last.pre[1].elements[i]))
    => /\ last.err = NoError
       /\ last.ret # None
       /\ last.ret[1].position = last.position[1]
       /\ Len(elements) = Len(last.pre[1].elements) - 1
       /\ IsPB(elements[Len(elements)])

\* C13: constructing, under a non-empty name, from elements whose positions
\* are pairwise distinct and non-negative but not exactly {0..count-1}
\* raises the gap error, whatever the elements are.
C13_SparseInput ==
    /\ last.op = "construct"
    /\ last.rotation[1].name # ""
    /\ DistinctPositions(last.rotation[1].elements)
    /\ \A q \in PositionSet(last.rotation[1].elements) : q >= 0
    /\ ~DensePositions(last.rotation[1].elements)
C13_GapReported == C13_SparseInput => last.err = ValueError(MsgGap)
\* A sparse input whose last and highest element is Music/PB.
C13_Witness ==
    /\ C13_SparseInput
    /\ IsPB(last.rotation[1].elements[Len(last.rotation[1].elements)])
    /\ EndsOnPB(last.rotation[1].elements)

\* ------------------------------------------------- claims on the queries
\* Same content: every field but position agrees.
SameContent(a, b) == [a EXCEPT !.position = 0] = [b EXCEPT !.position = 0]
CategoriesOf(elems) == {elems[i].category_name : i \in 1..Len(elems)}
CountOf(elems, c) == Cardinality({i \in 1..Len(elems) : elems[i].category_name = c})
LongerLen(a, b) == IF Len(a) >= Len(b) THEN Len(a) ELSE Len(b)
\* How many elements of a have the content of some element of b.
FoundIn(a, b) ==
    Cardinality({i \in 1..Len(a) : \E j \in 1..Len(b) : SameContent(a[i], b[j])})

RECURSIVE Flatten(_)
Flatten(runs) == IF runs = <<>> THEN <<>> ELSE Head(runs) \o Flatten(Tail(runs))
IndexIn(elems, e) == CHOOSE i \in 1..Len(elems) : elems[i] = e
\* runs are exactly the maximal runs of the elements of elems that satisfy
\* Wanted: together they are those elements in order, none is empty, each
\* is a stretch of neighbours in elems, and successive runs are not
\* neighbours.
MaximalRuns(runs, elems, Wanted(_)) ==
    /\ Flatten(runs) = SelectSeq(elems, Wanted)
    /\ \A k \in 1..Len(runs) :
          /\ runs[k] # <<>>
          /\ \A m \in 1..(Len(runs[k]) - 1) :
                IndexIn(elems, runs[k][m + 1]) = IndexIn(elems, runs[k][m]) + 1
    /\ \A k \in 1..(Len(runs) - 1) :
          IndexIn(elems, runs[k + 1][1])
              > IndexIn(elems, runs[k][Len(runs[k])]) + 1

\* C14: for rotations a and b not both empty, a.compare_with(b) returns
\* similarity 100 * (elements of a with the content of some element of b)
\* / max(len(a), len(b)) and a delta map over exactly the categories of a
\* and b with delta[c] = count_b(c) - count_a(c).
C14_Compared ==
    /\ last.op = "compare_with"
    /\ last.other[1].class = "Rotation"
    /\ LongerLen(last.pre[1].elements, last.other[1].obj.elements) > 0
C14_CompareResult ==
    C14_Compared =>
        LET a == last.pre[1].elements
            b == last.other[1].obj.elements
        IN  /\ last.err = NoError
            /\ last.ret # None
            /\ last.ret[1][1].num * LongerLen(a, b)
                  = 100 * FoundIn(a, b) * last.ret[1][1].den
            /\ DOMAIN last.ret[1][2] = CategoriesOf(a) \cup CategoriesOf(b)
            /\ \A c \in DOMAIN last.ret[1][2] :
                  last.ret[1][2][c] = CountOf(b, c) - CountOf(a, c)
\* The rotations differ in length, an element of a is found in b at another
\* index only, and b has a category a lacks.
C14_Witness ==
    /\ C14_Compared
    /\ LET a == last.pre[1].elements
           b == last.other[1].obj.elements
       IN  /\ Len(a) # Len(b)
           /\ \E i \in 1..Len(a) :
                 /\ \E j \in 1..Len(b) : SameContent(a[i], b[j])
                 /\ i > Len(b) \/ ~SameContent(a[i], b[i])
           /\ CategoriesOf(b) \ CategoriesOf(a) # {}

\* C15: music_sets returns the maximal consecutive runs of music-type
\* elements: concatenated they are the music-type elements in position
\* order, no set is empty, successive sets have a non-music element between
\* them, and a run open after the final element is included, for any
\* element sequence.
C15_MusicSetsAreRuns ==
    last.op = "music_sets" =>
        MaximalRuns(last.ret[1], last.pre[1].elements, IsMusic)
\* Two sets, the second one still open at the end of the sequence.
C15_Witness ==
    /\ last.op = "music_sets"
    /\ Len(last.ret[1]) = 2
    /\ IsMusic(last.pre[1].elements[Len(last.pre[1].elements)])

\* C16: for every valid rotation commercial_breaks returns exactly the
\* maximal consecutive runs of commercial-type elements, so every
\* commercial-type element appears in exactly one returned break.
C16_BreaksAreRuns ==
    (last.op = "commercial_breaks" /\ RulesHold(last.pre[1].elements)) =>
        MaximalRuns(last.ret[1], last.pre[1].elements, IsCommercial)

\* ------------------------------------------- claims on RotationElement
\* The element rules as stated, numbered in the stated order: 1 position,
\* 2 category_id, 3 subcategory_id, 4 category_name, 5 subcategory_name,
\* 6 separation values.
ElementViolated(a) ==
    {k \in 1..6 :
        \/ k = 1 /\ ~(a.position >= 0)
        \/ k = 2 /\ ~(a.category_id >= 1)
        \/ k = 3 /\ ~(a.subcategory_id >= 1)
        \/ k = 4 /\ a.category_name = ""
        \/ k = 5 /\ a.subcategory_name = ""
        \/ k = 6 /\ ~(/\ a.track_separation >= 0 /\ a.artist_separation >= 0
                       /\ a.title_separation >= 0 /\ a.album_separation >= 0)}
ElementRuleMsg(k) ==
    CASE k = 1 -> "Position must be non-negative"
      [] k = 2 -> "Category ID must be positive"
      [] k = 3 -> "Subcategory ID must be positive"
      [] k = 4 -> "Category name cannot be empty"
      [] k = 5 -> "Subcategory name cannot be empty"
      [] k = 6 -> "Separation values must be non-negative"
\* The eleven attributes other than position.
ContentFields ==
    {"category_id", "subcategory_id", "category_name", "subcategory_name",
     "element_type", "data", "track_separation", "artist_separation",
     "title_separation", "album_separation", "repeat_rule"}
ContentMatches(a, b) == \A f \in ContentFields : a[f] = b[f]
ExpectedLabel(t) ==
    CASE t = "MUSIC" -> "Music"
      [] t = "COMMERCIAL" -> "Commercial"
      [] t = "PROMO" -> "Promo"
      [] t = "JINGLE" -> "Jingle"
      [] t = "STATION_ID" -> "Station ID"

\* C17: for a valid element e, e.copy_with_position(p) with p >= 0 returns
\* an element equal to e under element equality, at position p, with every
\* other attribute identical, and leaves e unchanged; with p < 0 it raises
\* the position error that direct construction raises.
C17_CopyWithPosition ==
    last.op = "copy_with_position" =>
        LET e == last.element[1]
            p == last.position[1]
        IN  /\ elem = last.element
            /\ IF p >= 0
               THEN /\ last.err = NoError
                    /\ last.ret # None
                    /\ ElementEq(e, last.ret[1])
                    /\ last.ret[1].position = p
                    /\ ContentMatches(e, last.ret[1])
               ELSE /\ last.err = ValueError("Position must be non-negative")
                    /\ last.err = ElementNew([e EXCEPT !.position = p]).err
                    /\ last.ret = None
C17_Witness ==
    /\ last.op = "copy_with_position"
    /\ last.position[1] = 2
    /\ last.element[1].position = 1
    /\ last.element[1].element_type = "STATION_ID"

C19_Equality ==
    last.op = "__eq__" =>
        LET a == last.element[1]
            b == last.other[1]
        IN  /\ last.ret[1] = ContentMatches(a, b)
            /\ ElementEq(a, a) /\ ElementEq(b, b)
            /\ ElementEq(b, a) = last.ret[1]
            /\ \A c \in ComparedElements :
                  (last.ret[1] /\ ElementEq(b, c)) => ElementEq(a, c)
\* Two elements that differ in position only.
C19_Witness ==
    /\ last.op = "__eq__"
    /\ last.element[1].position # last.other[1].position
    /\ ContentMatches(last.element[1], last.other[1])
    /\ last.ret[1]

\* C20: for a valid element e, from_dict(to_dict(e)) succeeds and yields an
\* element with all twelve attributes those of e; the record has the twelve
\* keys and gives element_type as its string label.
C20_ElementRoundTrip ==
    last.op = "element_round_trip" =>
        /\ last.err = NoError
        /\ last.ret = last.element
        /\ DOMAIN last.other[1] = ContentFields \cup {"position"}
        /\ last.other[1].element_type = ExpectedLabel(last.element[1].element_type)
C20_Witness ==
    /\ last.op = "element_round_trip"
    /\ last.element[1].element_type = "STATION_ID"
    /\ last.element[1].position = 1

\* ------------------------------------- claims on growing and shrinking
\* The element of elems that holds position p.
ElementAt(elems, p) == elems[CHOOSE i \in 1..Len(elems) : elems[i].position = p]

\* C21: on a valid rotation of length n >= 1, remove_element(n-1) succeeds
\* iff nothing remains or the element at position n-2 is Music/PB; on
\* success it returns the removed element and leaves a valid rotation of
\* length n-1.
C21_RemovedLast ==
    /\ last.op = "remove_element"
    /\ RulesHold(last.pre[1].elements)
    /\ Len(last.pre[1].elements) >= 1
    /\ last.position[1] = Len(last.pre[1].elements) - 1
C22_AddedToValid ==
    /\ last.op = "add_element"
    /\ RulesHold(last.pre[1].elements)
C22_AddIff ==
    C22_AddedToValid =>
        LET before == last.pre[1].elements
            n == Len(before)
            e == last.element[1]
        IN  /\ (last.err = NoError) <=> (e.position = n /\ IsPB(e))
            /\ last.err = NoError =>
                  /\ Len(elements) = n + 1
                  /\ elements[n + 1] = e
                  /\ SubSeq(elements, 1, n) = before
                  /\ (\A i \in 1..n : IsPB(before[i]))
                        => \A i \in 1..(n + 1) : IsPB(elements[i])
\* Two successful calls in a row, the first on the empty rotation.
C22_Witness ==
    /\ C22_AddedToValid
    /\ last.err = NoError
    /\ prev.op = "add_element" /\ prev.err = NoError
    /\ prev.pre[1].elements = <<>>
    /\ Len(elements) = 2

\* C23: in every valid non-empty rotation the last element is of element
\* type Music: passing the terminal-PB rule implies is_music for the last
\* element, so no commercial run is open at the end of the sequence.
C23_LastIsMusic ==
    (live /\ elements # <<>> /\ RulesHold(elements))
        => /\ IsMusic(elements[Len(elements)])
           /\ ~IsCommercial(elements[Len(elements)])

\* C24: the element rules are checked whenever an attribute changes, not
\* only at construction: no element a caller holds, one whose attribute
\* was assigned after construction included, has a negative position, an
\* id below 1, an empty category or subcategory name, or a negative
\* separation.
C24_ElementAlwaysValid == elem # None => ElementViolated(elem[1]) = {}

\* C25: length, commercial_breaks, music_sets, category_counts,
\* subcategory_counts, compare_with and to_dict leave the rotation's name,
\* id, last_modified and element sequence as they were, and compare_with
\* leaves its argument as it was, whether the call returns or raises.
ReadOnlyOps ==
    {"length", "commercial_breaks", "music_sets", "category_counts",
     "subcategory_counts", "compare_with", "to_dict"}
C25_ReadOnly ==
    last.op \in ReadOnlyOps =>
        /\ Self = last.pre[1]
        /\ last.op = "compare_with" => last.after = last.other
\* A compare_with call that raised, on a rotation that holds elements.
C25_Witness ==
    /\ last.op = "compare_with"
    /\ last.err # NoError
    /\ Len(elements) >= 2

\* C26: positions are pairwise distinct in every rotation that
\* construction, add_element and remove_element calls can leave behind,
\* the calls that raised included.
C26_PositionsDistinct == live => DistinctPositions(elements)
\* An element offered for an occupied position of a rotation that an
\* earlier failed call left invalid.
C26_Witness ==
    /\ last.op = "add_element"
    /\ last.err # NoError
    /\ ~RulesHold(last.pre[1].elements)
    /\ Occupied(last.pre[1].elements, last.element[1].position)
    /\ Len(elements) >= 2

\* C27: compare_with is total over rotations: for any two valid rotations,
\* two empty ones included, it returns a (similarity, changes) pair; it
\* fails only with the type error, for an argument that is not a Rotation.
C27_CompareTotal ==
    (/\ last.op = "compare_with"
     /\ RulesHold(last.pre[1].elements))
    => IF last.other[1].class = "Rotation"
       THEN RulesHold(last.other[1].obj.elements)
                => /\ last.err = NoError
                   /\ last.ret # None
                   /\ Len(last.ret[1]) = 2
       ELSE last.err = TypeError("Can only compare with another Rotation")

\* C28: the two construction paths agree: for any name and element list,
\* from_dict on the record succeeds iff direct construction succeeds, and
\* when both succeed they hold the same element sequence.
C28_PathsAgree ==
    last.op = "both_ways" =>
        /\ (copy.err = NoError) <=> (last.err = NoError)
        /\ (copy.err = NoError /\ last.err = NoError)
              => copy.rotation[1].elements = elements

====
